---- MODULE Spec2Model ----
(***************************************************************************)
(* ckanext/datastore/helpers.py: identifier validators, the crosstab       *)
(* subquery extractor, the query-plan walker and the worklist loop of      *)
(* get_table_and_function_names_from_sql.                                  *)
(*                                                                         *)
(* Python strings on which the code works character by character are       *)
(* sequences of one-character strings.  A Python value whose type matters  *)
(* is a record [t |-> type, v |-> value]; the outcome of a call is a       *)
(* record [exc |-> "none", val |-> value] or [exc |-> exception type].     *)
(***************************************************************************)
EXTENDS Naturals, Integers, Sequences, FiniteSets, TLC

VARIABLES
    ct, ctOut,          \* _get_subquery_from_crosstab_call: argument, outcome
    name, nameOut,      \* is_valid_field_name / is_valid_table_name
    plan, planOut,      \* _get_table_names_queries_from_plan
    sql0,               \* get_table_and_function_names_from_sql: the sql argument
    queries, table_names, function_names,   \* its three local lists
    pc, exc,            \* where the call is, and the exception it raised
    log,                \* records written with log.error
    tokReqs,            \* statements handed to _get_function_names_from_sql
    oracleReqs,         \* statements sent to connection.execute (EXPLAIN)
    answers             \* what the connection answered, in order

vars == <<ct, ctOut, name, nameOut, plan, planOut, sql0, queries, table_names,
          function_names, pc, exc, log, tokReqs, oracleReqs, answers>>

extractVars  == <<ct, ctOut>>
validVars    == <<name, nameOut>>
walkVars     == <<plan, planOut>>
analyzeVars  == <<sql0, queries, table_names, function_names, pc, exc, log,
                  tokReqs, oracleReqs, answers>>

-----------------------------------------------------------------------------
(* Bounds of the model.                                                    *)

MaxBody == 4        \* longest crosstab literal body drawn for the extractor
MaxName == 3        \* longest identifier drawn for the validators
MaxChildren == 2    \* most children of a plan node drawn for the walker
MaxCalls == 5       \* most EXPLAIN round trips of one analysed call

Seqs(S, n) == UNION {[1..k -> S] : k \in 0..n}

-----------------------------------------------------------------------------
(* Python str operations.                                                  *)

startswith(s, p) == Len(s) >= Len(p) /\ SubSeq(s, 1, Len(p)) = p

endswith(s, p) == Len(s) >= Len(p) /\ SubSeq(s, Len(s) - Len(p) + 1, Len(s)) = p

contains(s, c) == \E i \in 1..Len(s) : s[i] = c

\* s[start:-back]: both ends are clipped to the string, an empty or inverted
\* range gives the empty string
slice(s, start, back) ==
    LET lo == IF start < Len(s) THEN start ELSE Len(s)
        hi == IF Len(s) > back THEN Len(s) - back ELSE 0
    IN  IF hi > lo THEN SubSeq(s, lo + 1, hi) ELSE <<>>

\* s.replace(old, new): occurrences are found left to right and do not overlap
RECURSIVE replace(_, _, _)
replace(s, old, new) ==
    IF Len(s) < Len(old) THEN s
    ELSE IF startswith(s, old)
         THEN new \o replace(SubSeq(s, Len(old) + 1, Len(s)), old, new)
         ELSE <<Head(s)>> \o replace(Tail(s), old, new)

IsSpace(c) == c \in {" ", "\t", "\n"}

RECURSIVE lstrip(_)
lstrip(s) == IF s # <<>> /\ IsSpace(Head(s)) THEN lstrip(Tail(s)) ELSE s

RECURSIVE rstrip(_)
rstrip(s) ==
    IF s # <<>> /\ IsSpace(s[Len(s)]) THEN rstrip(SubSeq(s, 1, Len(s) - 1)) ELSE s

strip(s) == rstrip(lstrip(s))

-----------------------------------------------------------------------------
(* Python values and truthiness.                                           *)

PyNone == [t |-> "NoneType", v |-> <<>>]
PyStr(s) == [t |-> "str", v |-> s]
PyBool(b) == [t |-> "bool", v |-> b]

Truthy(x) ==
    CASE x.t = "NoneType" -> FALSE
      [] x.t = "str" -> x.v # <<>>
      [] x.t = "bool" -> x.v

Returned(x) == [exc |-> "none", val |-> x]
Raised(e, m) == [exc |-> e, msg |-> m]

-----------------------------------------------------------------------------
(* _get_subquery_from_crosstab_call                                        *)

Quote == "'"
Crosstab == <<"c", "r", "o", "s", "s", "t", "a", "b">>
CrosstabPrefix == Crosstab \o <<"(", Quote>>
CrosstabSuffix == <<Quote, ":", ":", "t", "e", "x", "t", ")">>
PrefixLen == 10
SuffixLen == 8

OnlySimpleMsg == "only simple crosstab calls supported"
OnlyEscapedMsg == "only escaped single quotes allowed in query"

\* the plausible slip: the body is handed back still escaped
get_subquery_keeps_escapes(c) ==
    IF ~startswith(c, CrosstabPrefix) \/ ~endswith(c, CrosstabSuffix)
    THEN Raised("ValueError", OnlySimpleMsg)
    ELSE LET body == slice(c, PrefixLen, SuffixLen)
         IN  IF contains(replace(body, <<Quote, Quote>>, <<>>), Quote)
             THEN Raised("ValueError", OnlyEscapedMsg)
             ELSE Returned(body)

_get_subquery_from_crosstab_call(c) ==
    IF ~startswith(c, CrosstabPrefix) \/ ~endswith(c, CrosstabSuffix)
    THEN Raised("ValueError", OnlySimpleMsg)
    ELSE LET body == slice(c, PrefixLen, SuffixLen)
         IN  IF contains(replace(body, <<Quote, Quote>>, <<>>), Quote)
             THEN Raised("ValueError", OnlyEscapedMsg)
             ELSE Returned(replace(body, <<Quote, Quote>>, <<Quote>>))

-----------------------------------------------------------------------------
(* is_valid_field_name, is_valid_table_name                                *)

\* a and b: the first operand when it is falsy, the second otherwise
PyAnd(a, b) == IF Truthy(a) THEN b ELSE a

is_valid_field_name(n) ==
    PyAnd(n,
      PyAnd(PyBool(n.v = strip(n.v)),
        PyAnd(PyBool(~startswith(n.v, <<"_">>)),
              PyBool(~contains(n.v, "\"")))))

is_valid_table_name(n) ==
    IF n.t = "NoneType" THEN Raised("TypeError", "argument of type 'NoneType' is not iterable")
    ELSE IF contains(n.v, "%") THEN Returned(PyBool(FALSE))
    ELSE Returned(is_valid_field_name(n))

-----------------------------------------------------------------------------
(* sqlparse, as far as helpers.py uses it: the lexer, the statement        *)
(* splitter and the grouping of NAME ( ... ) into Function tokens.         *)

Letters == {"a", "b", "c", "d", "e", "f", "g", "h", "i", "j", "k", "l", "m",
            "n", "o", "p", "q", "r", "s", "t", "u", "v", "w", "x", "y", "z"}

\* index of the quote closing the literal that opens at s[1], scanning from j;
\* a doubled quote is an escape when the literal still closes after it;
\* 0 when the literal is not closed
RECURSIVE LiteralEnd(_, _)
LiteralEnd(s, j) ==
    IF j > Len(s) THEN 0
    ELSE IF s[j] # Quote THEN LiteralEnd(s, j + 1)
    ELSE IF j < Len(s) /\ s[j + 1] = Quote
         THEN LET r == LiteralEnd(s, j + 2) IN IF r # 0 THEN r ELSE j
         ELSE j

RECURSIVE NameLen(_)
NameLen(s) == IF s # <<>> /\ Head(s) \in Letters THEN 1 + NameLen(Tail(s)) ELSE 0

RECURSIVE Lex(_)
Lex(s) ==
    IF s = <<>> THEN <<>>
    ELSE IF Head(s) = Quote
    THEN LET e == LiteralEnd(s, 2)
         IN  IF e = 0
             THEN <<[k |-> "error", text |-> <<Quote>>]>> \o Lex(Tail(s))
             ELSE <<[k |-> "string", text |-> SubSeq(s, 1, e)]>>
                  \o Lex(SubSeq(s, e + 1, Len(s)))
    ELSE IF Head(s) \in Letters
    THEN LET n == NameLen(s)
         IN  <<[k |-> "name", text |-> SubSeq(s, 1, n)]>>
             \o Lex(SubSeq(s, n + 1, Len(s)))
    ELSE <<[k |-> "punct", text |-> <<Head(s)>>]>> \o Lex(Tail(s))

IsPunct(tok, c) == tok.k = "punct" /\ tok.text = <<c>>

\* a statement ends with its semicolon; text after the last one is a statement
RECURSIVE SplitStatements(_)
SplitStatements(toks) ==
    IF toks = <<>> THEN <<>>
    ELSE IF \E i \in 1..Len(toks) : IsPunct(toks[i], ";")
    THEN LET i == CHOOSE i \in 1..Len(toks) :
                      /\ IsPunct(toks[i], ";")
                      /\ \A j \in 1..(i - 1) : ~IsPunct(toks[j], ";")
         IN  <<SubSeq(toks, 1, i)>> \o SplitStatements(SubSeq(toks, i + 1, Len(toks)))
    ELSE <<toks>>

\* index of the ")" closing the "(" at toks[i - 1], scanning from i at the
\* given depth; 0 when it is never closed
RECURSIVE MatchParen(_, _, _)
MatchParen(toks, i, depth) ==
    IF i > Len(toks) THEN 0
    ELSE IF IsPunct(toks[i], "(") THEN MatchParen(toks, i + 1, depth + 1)
    ELSE IF IsPunct(toks[i], ")")
         THEN IF depth = 1 THEN i ELSE MatchParen(toks, i + 1, depth - 1)
    ELSE MatchParen(toks, i + 1, depth)

Leaf(tok) == [ttype |-> tok.k, fname |-> tok.text, hasTokens |-> FALSE, tokens |-> <<>>]

\* the token tree of one statement: NAME followed by a closed parenthesis is a
\* Function whose sub-tokens are those inside the parenthesis
RECURSIVE Group(_)
Group(toks) ==
    IF toks = <<>> THEN <<>>
    ELSE IF /\ toks[1].k = "name"
            /\ Len(toks) >= 2
            /\ IsPunct(toks[2], "(")
            /\ MatchParen(toks, 3, 1) # 0
    THEN LET m == MatchParen(toks, 3, 1)
         IN  <<[ttype |-> "Function", fname |-> toks[1].text, hasTokens |-> TRUE,
                tokens |-> Group(SubSeq(toks, 3, m - 1))]>>
             \o Group(SubSeq(toks, m + 1, Len(toks)))
    ELSE IF IsPunct(toks[1], "(") /\ MatchParen(toks, 2, 1) # 0
    THEN LET m == MatchParen(toks, 2, 1)
         IN  <<[ttype |-> "Parenthesis", fname |-> <<>>, hasTokens |-> TRUE,
                tokens |-> Group(SubSeq(toks, 2, m - 1))]>>
             \o Group(SubSeq(toks, m + 1, Len(toks)))
    ELSE <<Leaf(toks[1])>> \o Group(Tail(toks))

sqlparse_split(sql) == SplitStatements(Lex(sql))

sqlparse_parse(sql) ==
    LET stmts == SplitStatements(Lex(sql))
    IN  [i \in 1..Len(stmts) |-> Group(stmts[i])]

is_single_statement(sql) == Len(sqlparse_split(sql)) <= 1

-----------------------------------------------------------------------------
(* _get_function_names_from_sql                                            *)

InList(x, list) == \E i \in 1..Len(list) : list[i] = x

\* the inner _get_function_names: function_names is the enclosing list
RECURSIVE _get_function_names(_, _)
_get_function_names(tokens, names) ==
    IF tokens = <<>> THEN names
    ELSE LET token == Head(tokens)
             n1 == IF token.ttype = "Function" /\ ~InList(token.fname, names)
                   THEN Append(names, token.fname)
                   ELSE names
             n2 == IF token.hasTokens THEN _get_function_names(token.tokens, n1) ELSE n1
         IN  _get_function_names(Tail(tokens), n2)

_get_function_names_from_sql(sql) ==
    LET parsed == sqlparse_parse(sql)
    IN  IF parsed = <<>> THEN Raised("IndexError", "tuple index out of range")
        ELSE Returned(_get_function_names(parsed[1], <<>>))

-----------------------------------------------------------------------------
(* _get_table_names_queries_from_plan                                      *)
(* A plan node is a dict: a function from the keys it has to their values. *)

UnknownCrosstab == "_unknown_crosstab_sql"

has(d, key) == key \in DOMAIN d

\* plan.get('Relation Name') is truthy
HasRelation(p) == has(p, "Relation Name") /\ p["Relation Name"] # ""

IsCrosstabNode(p) ==
    has(p, "Function Name") /\ startswith(p["Function Name"], Crosstab)

\* what the node itself contributes, before its children
WalkNode(p) ==
    LET t1 == IF HasRelation(p) THEN <<p["Relation Name"]>> ELSE <<>>
    IN  IF ~IsCrosstabNode(p) THEN [exc |-> "none", t |-> t1, q |-> <<>>]
        ELSE IF ~has(p, "Function Call") THEN [exc |-> "KeyError", t |-> t1, q |-> <<>>]
        ELSE LET r == _get_subquery_from_crosstab_call(p["Function Call"])
             IN  IF r.exc = "ValueError"
                 THEN [exc |-> "none", t |-> Append(t1, UnknownCrosstab), q |-> <<>>]
                 ELSE [exc |-> "none", t |-> t1, q |-> <<r.val>>]

RECURSIVE _get_table_names_queries_from_plan(_)
RECURSIVE WalkChildren(_, _)

\* the for loop over plan['Plans'], acc holding table_names and queries so far
WalkChildren(children, acc) ==
    IF children = <<>> THEN acc
    ELSE LET r == _get_table_names_queries_from_plan(Head(children))
         IN  IF r.exc # "none" THEN [exc |-> r.exc, t |-> acc.t, q |-> acc.q]
             ELSE WalkChildren(Tail(children),
                               [exc |-> "none", t |-> acc.t \o r.t, q |-> acc.q \o r.q])

_get_table_names_queries_from_plan(p) ==
    LET own == WalkNode(p)
    IN  IF own.exc # "none" THEN own
        ELSE IF has(p, "Plans") THEN WalkChildren(p["Plans"], own)
        ELSE own

-----------------------------------------------------------------------------
(* get_table_and_function_names_from_sql                                   *)
(* The connection is the plan oracle.  Its answer to one EXPLAIN is        *)
(*   [kind |-> "raise"]  execute raises,                                   *)
(*   [kind |-> "norow"]  fetchone() returns None,                          *)
(*   [kind |-> "row"]    a row whose 'QUERY PLAN' text is valid JSON or    *)
(*                       not, value being what json.loads makes of it.     *)
(* A decoded JSON value is [j |-> "array", items], [j |-> "object",        *)
(* members] or [j |-> "null"]; a plan node is the bare dict.               *)

EmptyDict == [x \in {} |-> x]
JNull == [j |-> "null", items |-> <<>>, members |-> EmptyDict]
JArray(items) == [j |-> "array", items |-> items, members |-> EmptyDict]
JObject(members) == [j |-> "object", items |-> <<>>, members |-> members]

AnsRaise == [kind |-> "raise", valid |-> FALSE, value |-> JNull]
AnsNoRow == [kind |-> "norow", valid |-> FALSE, value |-> JNull]
AnsBadJson == [kind |-> "row", valid |-> FALSE, value |-> JNull]
AnsJson(v) == [kind |-> "row", valid |-> TRUE, value |-> v]
AnsPlan(p) == AnsJson(JArray(<<JObject([x \in {"Plan"} |-> p])>>))

\* query_plan[0]
Subscript0(d) ==
    CASE d.j = "array" ->
            IF d.items = <<>> THEN Raised("IndexError", "list index out of range")
            ELSE Returned(d.items[1])
      [] d.j = "object" -> Raised("KeyError", "0")
      [] d.j = "null" -> Raised("TypeError", "'NoneType' object is not subscriptable")

\* query_plan[0]['Plan']
SubscriptPlan(e) ==
    CASE e.j = "object" ->
            IF has(e.members, "Plan") THEN Returned(e.members["Plan"])
            ELSE Raised("KeyError", "Plan")
      [] e.j = "array" -> Raised("TypeError", "list indices must be integers")
      [] e.j = "null" -> Raised("TypeError", "'NoneType' object is not subscriptable")

Failure(e, inTry) == [exc |-> e, inTry |-> inTry, t |-> <<>>, q |-> <<>>]

\* the execute(...).fetchone() call and the body of the try block: the
\* exception that leaves it, or the walker's two lists
Explain(a) ==
    IF a.kind = "raise" THEN Failure("ProgrammingError", FALSE)
    ELSE IF a.kind = "norow" THEN Failure("TypeError", TRUE)
    ELSE IF ~a.valid THEN Failure("ValueError", TRUE)
    ELSE LET first == Subscript0(a.value)
         IN  IF first.exc # "none" THEN Failure(first.exc, TRUE)
             ELSE LET p == SubscriptPlan(first.val)
                  IN  IF p.exc # "none" THEN Failure(p.exc, TRUE)
                      ELSE LET w == _get_table_names_queries_from_plan(p.val)
                           IN  [exc |-> w.exc, inTry |-> TRUE, t |-> w.t, q |-> w.q]

\* except ValueError: log.error(...); raise
Logged(lg, r) ==
    IF r.inTry /\ r.exc = "ValueError"
    THEN Append(lg, [level |-> "error", msg |-> "Could not parse query plan"])
    ELSE lg

\* the plausible slips: a list assigned or merged instead of extended
ExtendTablesUnique(tn, t) ==
    tn \o SelectSeq(t, LAMBDA x : ~InList(x, tn))

ExtendQueriesFirstOnly(qs, q) == IF q = <<>> THEN qs ELSE Append(qs, q[1])

ExtendFunctionNames(fns, new) == fns \o new

ExtendTables(tn, t) == tn \o t

ExtendQueries(qs, q) == qs \o q

\* one pass of the while loop, the connection answering a
LoopBody(a) ==
    LET s == queries[Len(queries)]
        rest == SubSeq(queries, 1, Len(queries) - 1)
        fn == _get_function_names_from_sql(s)
        r == Explain(a)
    IN  /\ tokReqs' = Append(tokReqs, s)
        /\ IF fn.exc # "none"
           THEN /\ pc' = "failed"
                /\ exc' = fn.exc
                /\ queries' = rest
                /\ UNCHANGED <<table_names, function_names, log, oracleReqs, answers>>
           ELSE /\ function_names' = ExtendFunctionNames(function_names, fn.val)
                /\ oracleReqs' = Append(oracleReqs, s)
                /\ answers' = Append(answers, a)
                /\ log' = Logged(log, r)
                /\ IF r.exc # "none"
                   THEN /\ pc' = "failed"
                        /\ exc' = r.exc
                        /\ queries' = rest
                        /\ UNCHANGED table_names
                   ELSE /\ table_names' = ExtendTables(table_names, r.t)
                        /\ queries' = ExtendQueries(rest, r.q)
                        /\ UNCHANGED <<pc, exc>>
        /\ UNCHANGED <<sql0, extractVars, validVars, walkVars>>

-----------------------------------------------------------------------------
(* Statements and plans the analysed calls are run on.                     *)

SqlF == <<"f", "(", "a", ")">>                                \* f(a)
SqlGFF == <<"g", "(">> \o SqlF \o <<",">> \o SqlF \o <<")">>  \* g(f(a),f(a))
SqlTwo == <<"a", ";", "a">>                                   \* a;a
SqlQuoted == <<"g", "(", Quote, "a", Quote, ")">>             \* g('a')
SqlFCrosstab ==                                               \* f(crosstab('f(a)'))
    <<"f", "(">> \o Crosstab \o <<"(", Quote>> \o SqlF \o <<Quote, ")", ")">>

TopSqls == {SqlF, SqlGFF, SqlTwo, SqlFCrosstab, <<>>}

Call(b) == CrosstabPrefix \o b \o CrosstabSuffix
Escaped(b) == replace(b, <<Quote>>, <<Quote, Quote>>)

Opt(key, S) == [k \in {key : v \in S} |-> CHOOSE v \in S : TRUE]
Node(rel, fn, fc, kids) ==
    Opt("Relation Name", rel) @@ Opt("Function Name", fn)
    @@ Opt("Function Call", fc) @@ Opt("Plans", kids)

PlanOrders == Node({"orders"}, {}, {}, {})
PlanSiblings == Node({}, {}, {}, {<<PlanOrders, PlanOrders>>})
PlanCtF == Node({}, {Crosstab}, {Call(SqlF)}, {})
PlanCtTwo ==
    Node({"t"}, {}, {}, {<<Node({}, {Crosstab}, {Call(SqlTwo)}, {}), PlanOrders>>})
PlanCtBad == Node({}, {Crosstab}, {Call(<<"a", Quote, "b">>)}, {})
PlanCtNoCall == Node({"t"}, {Crosstab}, {}, {})
PlanFn == Node({"t"}, {<<"f">>}, {SqlF}, {})
PlanCtPair ==
    Node({}, {}, {}, {<<Node({"t"}, {Crosstab}, {Call(Escaped(SqlQuoted))}, {}),
                        Node({}, {Crosstab \o <<"2">>}, {Call(SqlF)}, {})>>})
PlanCtEmpty == Node({}, {Crosstab}, {Call(<<>>)}, {})

OraclePlans == {PlanOrders, PlanSiblings, PlanCtF, PlanCtTwo, PlanCtBad,
                PlanCtNoCall, PlanFn, PlanCtPair, PlanCtEmpty}

OracleAnswers ==
    {AnsRaise, AnsNoRow, AnsBadJson, AnsJson(JNull), AnsJson(JArray(<<>>)),
     AnsJson(JObject(EmptyDict)), AnsJson(JArray(<<JObject(EmptyDict)>>))}
    \cup {AnsPlan(p) : p \in OraclePlans}

\* plan trees drawn for the walker alone
RelOpts == {{}, {""}, {"orders"}, {"t"}}
FnOpts == {{}, {Crosstab}, {Crosstab \o <<"2">>}, {<<"f">>}}
FcOpts == {{}, {Call(SqlF)}, {Call(<<"a", Quote, "b">>)}, {Crosstab \o <<"(", "a", ")">>}}

LeafPlans == {Node(r, f, c, {}) : r \in RelOpts, f \in FnOpts, c \in FcOpts}
KidPlans == {PlanOrders, PlanCtF, PlanCtBad, PlanSiblings}
RootOpts == {<<{}, {}, {}>>, <<{"t"}, {}, {}>>, <<{"t"}, {Crosstab}, {Call(SqlTwo)}>>,
             <<{}, {Crosstab}, {Crosstab \o <<"(", "a", ")">>}>>}
PlanTrees ==
    LeafPlans
    \cup {Node(o[1], o[2], o[3], {kids}) :
              o \in RootOpts, kids \in Seqs(KidPlans \cup {PlanCtNoCall}, MaxChildren)}

-----------------------------------------------------------------------------
(* Inputs of the pure functions.                                           *)

BodyChars == {"a", Quote, ";"}
Bodies == Seqs(BodyChars, MaxBody)

CallTexts ==
    {CrosstabPrefix \o b \o CrosstabSuffix : b \in Bodies}            \* the simple form
    \cup {CrosstabPrefix \o b \o <<Quote, ")">> : b \in Bodies}        \* no ::text
    \cup {CrosstabPrefix \o b \o <<Quote, ",", "a", ")">> : b \in Bodies}  \* two arguments
    \cup {Crosstab \o <<"(">> \o b \o <<")">> : b \in Bodies}          \* not a literal
    \cup {<<"f", "(", Quote>> \o b \o CrosstabSuffix : b \in Bodies}   \* another function
    \cup {Crosstab \o <<"(">> \o CrosstabSuffix}                       \* crosstab('::text)

NameChars == {"a", " ", "_", "\"", "%"}
Names == {PyNone} \cup {PyStr(s) : s \in Seqs(NameChars, MaxName)}

Idle == [state |-> "idle"]

-----------------------------------------------------------------------------
(* Specifications.                                                         *)

NoExtract == ct = <<>> /\ ctOut = Idle
NoValidate == name = PyNone /\ nameOut = Idle
NoWalk == plan = EmptyDict /\ planOut = Idle
NoAnalyze ==
    /\ sql0 = <<>> /\ queries = <<>> /\ table_names = <<>> /\ function_names = <<>>
    /\ pc = "idle" /\ exc = "none" /\ log = <<>>
    /\ tokReqs = <<>> /\ oracleReqs = <<>> /\ answers = <<>>

\* the state on entry to the while loop
Called(sqls) ==
    /\ sql0 \in sqls
    /\ queries = <<sql0>>
    /\ table_names = <<>>
    /\ function_names = <<>>
    /\ pc = "loop" /\ exc = "none" /\ log = <<>>
    /\ tokReqs = <<>> /\ oracleReqs = <<>> /\ answers = <<>>

Init == Called(TopSqls) /\ NoExtract /\ NoValidate /\ NoWalk

Iterate ==
    /\ pc = "loop"
    /\ queries # <<>>
    /\ Len(oracleReqs) < MaxCalls
    /\ \E a \in OracleAnswers : LoopBody(a)

Return ==
    /\ pc = "loop"
    /\ queries = <<>>
    /\ pc' = "returned"
    /\ UNCHANGED <<sql0, queries, table_names, function_names, exc, log,
                   tokReqs, oracleReqs, answers, extractVars, validVars, walkVars>>

Next == Iterate \/ Return

Spec == Init /\ [][Next]_vars

\* the extractor on its own
InitExtract == ct \in CallTexts /\ ctOut = Idle /\ NoValidate /\ NoWalk /\ NoAnalyze

Extract ==
    /\ ctOut = Idle
    /\ ctOut' = [state |-> "done", r |-> _get_subquery_from_crosstab_call(ct)]
    /\ UNCHANGED <<ct, validVars, walkVars, analyzeVars>>

SpecExtract == InitExtract /\ [][Extract]_vars

\* the validators on their own
InitValidate == name \in Names /\ nameOut = Idle /\ NoExtract /\ NoWalk /\ NoAnalyze

Validate ==
    /\ nameOut = Idle
    /\ nameOut' = [state |-> "done",
                   field |-> Returned(is_valid_field_name(name)),
                   table |-> is_valid_table_name(name)]
    /\ UNCHANGED <<name, extractVars, walkVars, analyzeVars>>

SpecValidate == InitValidate /\ [][Validate]_vars

\* the walker on its own
InitWalk == plan \in PlanTrees /\ planOut = Idle /\ NoExtract /\ NoValidate /\ NoAnalyze

Walk ==
    /\ planOut = Idle
    /\ planOut' = [state |-> "done", r |-> _get_table_names_queries_from_plan(plan)]
    /\ UNCHANGED <<plan, extractVars, validVars, analyzeVars>>

SpecWalk == InitWalk /\ [][Walk]_vars

\* the loop under an oracle that answers every request with a plan and whose
\* plans for an extracted statement hold only shorter crosstab statements
AnswersFor(s) ==
    {AnsPlan(p) : p \in
        {p \in OraclePlans :
            LET w == _get_table_names_queries_from_plan(p)
            IN  oracleReqs = <<>> \/ \A i \in 1..Len(w.q) : Len(w.q[i]) < Len(s)}}

IterateAnswered ==
    /\ pc = "loop"
    /\ queries # <<>>
    /\ \E a \in AnswersFor(queries[Len(queries)]) : LoopBody(a)

NextAnswered == IterateAnswered \/ Return

InitAnswered ==
    /\ Called({s \in TopSqls : s # <<>> /\ is_single_statement(s)})
    /\ NoExtract /\ NoValidate /\ NoWalk

SpecAnswered == InitAnswered /\ [][NextAnswered]_vars /\ WF_vars(NextAnswered)

-----------------------------------------------------------------------------
(* Properties.                                                             *)

Last(seq) == seq[Len(seq)]

Count(x, seq) == Cardinality({i \in 1..Len(seq) : seq[i] = x})

Range(seq) == {seq[i] : i \in 1..Len(seq)}

SameBag(a, b) == \A x \in Range(a) \cup Range(b) : Count(x, a) = Count(x, b)

RECURSIVE Flatten(_)
Flatten(seqs) == IF seqs = <<>> THEN <<>> ELSE Head(seqs) \o Flatten(Tail(seqs))

\* the nodes of a plan tree, each before its children, children in order
RECURSIVE Nodes(_)
Nodes(p) ==
    <<p>> \o (IF has(p, "Plans")
              THEN Flatten([i \in 1..Len(p["Plans"]) |-> Nodes(p["Plans"][i])])
              ELSE <<>>)

\* the answer is a JSON array whose element zero has a "Plan" node
UsablePlan(a) ==
    /\ a.kind = "row" /\ a.valid
    /\ a.value.j = "array" /\ a.value.items # <<>>
    /\ a.value.items[1].j = "object" /\ has(a.value.items[1].members, "Plan")

PlanOf(a) == a.value.items[1].members["Plan"]

\* the nodes of every plan obtained so far, in the order they were obtained
NodesObtained == Flatten([i \in 1..Len(answers) |-> Nodes(PlanOf(answers[i]))])

Extractable(n) ==
    /\ IsCrosstabNode(n) /\ has(n, "Function Call")
    /\ _get_subquery_from_crosstab_call(n["Function Call"]).exc = "none"

ExtractedFrom(ns) ==
    LET hits == SelectSeq(ns, Extractable)
    IN  [i \in 1..Len(hits) |-> _get_subquery_from_crosstab_call(hits[i]["Function Call"]).val]

RelationsOf(ns) ==
    LET hits == SelectSeq(ns, HasRelation)
    IN  [i \in 1..Len(hits) |-> hits[i]["Relation Name"]]

\* ct is crosstab(' then a body then '::text), prefix and suffix apart
SimpleForm(c) ==
    /\ Len(c) >= Len(CrosstabPrefix) + Len(CrosstabSuffix)
    /\ SubSeq(c, 1, Len(CrosstabPrefix)) = CrosstabPrefix
    /\ SubSeq(c, Len(c) - Len(CrosstabSuffix) + 1, Len(c)) = CrosstabSuffix

BodyOf(c) == SubSeq(c, Len(CrosstabPrefix) + 1, Len(c) - Len(CrosstabSuffix))

\* every maximal run of quotes has even length
EvenQuoteRuns(b) ==
    \A i \in 1..Len(b) : \A j \in i..Len(b) :
        (/\ \A k \in i..j : b[k] = Quote
         /\ (i = 1 \/ b[i - 1] # Quote)
         /\ (j = Len(b) \/ b[j + 1] # Quote))
        => (j - i + 1) % 2 = 0

RECURSIVE DoubleQuotes(_)
DoubleQuotes(b) ==
    IF b = <<>> THEN <<>>
    ELSE (IF Head(b) = Quote THEN <<Quote, Quote>> ELSE <<Head(b)>>) \o DoubleQuotes(Tail(b))

\* C1: when the call returns, no function name occurs twice in function_names.
C1_FunctionNamesUnique ==
    pc = "returned" =>
        \A i, j \in 1..Len(function_names) :
            function_names[i] = function_names[j] => i = j

\* C2: if the sql argument is a single statement, every statement sent to
\* the connection for EXPLAIN is a single statement.
C2_OnlySingleStatementsExplained ==
    is_single_statement(sql0) =>
        \A i \in 1..Len(oracleReqs) : is_single_statement(oracleReqs[i])

\* C3: whenever the connection's answer holds no usable plan, the call has
\* failed and an error record was logged before the failure propagated.
C3_UnusablePlanLoggedAndRaised ==
    (answers # <<>> /\ ~UsablePlan(Last(answers))) =>
        /\ pc = "failed"
        /\ log # <<>>
        /\ Last(log).level = "error"

\* C4: the walker never raises, and every crosstab node of the tree gives
\* exactly one of an extracted statement or the _unknown_crosstab_sql entry.
C4_WalkerNeverRaises ==
    planOut.state = "done" =>
        LET ns == Nodes(plan)
            crosstabs == Cardinality({i \in 1..Len(ns) : IsCrosstabNode(ns[i])})
        IN  /\ planOut.r.exc = "none"
            /\ planOut.r.q = ExtractedFrom(ns)
            /\ Len(planOut.r.q) + Count(UnknownCrosstab, planOut.r.t) = crosstabs

\* C5: when the call returns, the statements tokenized and the statements
\* explained are the sql argument and each statement extracted from a crosstab
\* node of an obtained plan, each once; the round trips number one more than
\* the extractions; and what was found for each is in the returned lists.
C5_ExtractedStatementsAnalysedOnce ==
    pc = "returned" =>
        LET expected == <<sql0>> \o ExtractedFrom(NodesObtained)
        IN  /\ Len(oracleReqs) = 1 + Len(ExtractedFrom(NodesObtained))
            /\ SameBag(oracleReqs, expected)
            /\ SameBag(tokReqs, expected)
            /\ \A i \in 1..Len(oracleReqs) :
                /\ Range(_get_function_names_from_sql(oracleReqs[i]).val)
                       \subseteq Range(function_names)
                /\ Range(RelationsOf(Nodes(PlanOf(answers[i]))))
                       \subseteq Range(table_names)

C5_NestedTwiceReturned ==
    /\ pc = "returned"
    /\ Len(oracleReqs) = 3
    /\ answers[1] = AnsPlan(PlanCtF)
    /\ answers[2] = AnsPlan(PlanCtTwo)
    /\ oracleReqs[3] = SqlTwo

\* C6: when the call returns, table_names without its _unknown_crosstab_sql
\* entries is the relation names of the nodes of the obtained plans, in visit
\* order, one entry for each node that has one.
C6_TablesInVisitOrder ==
    pc = "returned" =>
        SelectSeq(table_names, LAMBDA x : x # UnknownCrosstab)
            = RelationsOf(NodesObtained)

C6_SameTableTwice ==
    /\ pc = "returned"
    /\ Count("orders", table_names) >= 2
    /\ InList(UnknownCrosstab, table_names)

\* C7: a call text that is not crosstab(' + body + '::text) is refused with
\* 'only simple crosstab calls supported'.
C7_OtherShapesRefused ==
    (ctOut.state = "done" /\ ~SimpleForm(ct)) =>
        /\ ctOut.r.exc = "ValueError"
        /\ ctOut.r.msg = OnlySimpleMsg

\* C8: for crosstab('<body>'::text) the extractor succeeds exactly when every
\* run of quotes in the body has even length; it then returns the text whose
\* re-escaping is the body, and otherwise refuses with 'only escaped single
\* quotes allowed in query'.
C8_EscapedBodiesRoundTrip ==
    (ctOut.state = "done" /\ SimpleForm(ct)) =>
        IF EvenQuoteRuns(BodyOf(ct))
        THEN /\ ctOut.r.exc = "none"
             /\ DoubleQuotes(ctOut.r.val) = BodyOf(ct)
        ELSE /\ ctOut.r.exc = "ValueError"
             /\ ctOut.r.msg = OnlyEscapedMsg

C8_DoubledQuoteCollapsed ==
    /\ ctOut.state = "done"
    /\ SimpleForm(ct)
    /\ contains(BodyOf(ct), Quote)
    /\ ctOut.r.exc = "none"
    /\ Len(ctOut.r.val) < Len(BodyOf(ct))

\* C9: both validators return a boolean for every name, and False for the
\* empty string and for None.
C9_ValidatorsReturnBooleans ==
    nameOut.state = "done" =>
        /\ nameOut.field.exc = "none" /\ nameOut.field.val.t = "bool"
        /\ nameOut.table.exc = "none" /\ nameOut.table.val.t = "bool"
        /\ (name \in {PyNone, PyStr(<<>>)} =>
                ~nameOut.field.val.v /\ ~nameOut.table.val.v)

\* C10: under an oracle that answers every request with a plan and whose
\* crosstab statements shrink, the loop stops only by returning its two lists:
\* the call is in the loop, where it can take its next step, or has returned.
C10_StopsOnlyByReturning == pc \in {"loop", "returned"}

====
